---------------------------- MODULE Spec2Model ----------------------------
(***************************************************************************)
(* Model of the PytSite Redis cache driver (src/_driver.py).               *)
(*                                                                         *)
(* The backend keyspace is the variable `store`; every driver method is an *)
(* operator computing the backend state, the return value and the raised   *)
(* error of one call, and an action applying it.  Strings that the driver  *)
(* concatenates, pattern-matches or strips (server name, pool, key) are    *)
(* sequences of one-character strings; Python values are named by their    *)
(* literal ("None", "0", "x").                                             *)
(***************************************************************************)
EXTENDS Integers, Sequences, FiniteSets

VARIABLES
    store,  \* backend keyspace: fully qualified key -> [type, val, ttl]
    prev,   \* the keyspace as it was when the most recent call started
    last,   \* the most recent call: [op, pool, key, arg, ret, err, berr]
    ref,    \* reference map of the scalar store: <<pool, key>> -> [v, ttl]
    call    \* a read in progress, between two commands it sends to the backend

vars == <<store, prev, last, ref, call>>

---------------------------------------------------------------------------
(* Bounds of the model.                                                    *)

MaxTTL == 1
MaxLen == 2

---------------------------------------------------------------------------
(* Python values and the pickle codec.                                     *)

\* An optional integer argument (ttl: int = None, end: int = None): the empty
\* sequence is None, <<n>> is the integer n.
None == <<>>
Some(n) == <<n>>

PyNone == "None"

\* pickle.dumps: a framed, never empty byte string
dumps(v) == <<"\\x80", v, ".">>

\* pickle.loads
loads(b) == b[2]

\* bool(b) of a bytes reply (None is modelled by NilReply)
NilReply == <<>>
BytesTruthy(b) == Len(b) > 0

---------------------------------------------------------------------------
(* Strings.                                                                *)

\* str.replace(old, ''): every non-overlapping occurrence, left to right
RECURSIVE StrRemoveAll(_, _)
StrRemoveAll(s, old) ==
    IF Len(s) < Len(old) \/ Len(old) = 0 THEN s
    ELSE IF SubSeq(s, 1, Len(old)) = old
         THEN StrRemoveAll(SubSeq(s, Len(old) + 1, Len(s)), old)
         ELSE <<Head(s)>> \o StrRemoveAll(Tail(s), old)

\* position of the first "]" of a pattern at or after i, or Len + 1
RECURSIVE ClassEnd(_, _)
ClassEnd(pat, i) ==
    IF i > Len(pat) THEN i
    ELSE IF pat[i] = "]" THEN i
    ELSE ClassEnd(pat, i + 1)

\* the backend's glob match of KEYS: *, ?, [set], \x and literals
RECURSIVE GlobMatch(_, _)
GlobMatch(pat, s) ==
    IF Len(pat) = 0 THEN Len(s) = 0
    ELSE IF Head(pat) = "*"
         THEN GlobMatch(Tail(pat), s) \/ (Len(s) > 0 /\ GlobMatch(pat, Tail(s)))
    ELSE IF Len(s) = 0 THEN FALSE
    ELSE IF Head(pat) = "?" THEN GlobMatch(Tail(pat), Tail(s))
    ELSE IF Head(pat) = "["
         THEN LET e == ClassEnd(pat, 2)
                  neg == Len(pat) >= 2 /\ pat[2] = "^"
                  from == IF neg THEN 3 ELSE 2
                  cls == {pat[i] : i \in from..(e - 1)}
              IN  /\ (Head(s) \in cls) # neg
                  /\ GlobMatch(SubSeq(pat, e + 1, Len(pat)), Tail(s))
    ELSE IF Head(pat) = "\\" /\ Len(pat) >= 2
         THEN pat[2] = Head(s) /\ GlobMatch(SubSeq(pat, 3, Len(pat)), Tail(s))
    ELSE Head(pat) = Head(s) /\ GlobMatch(Tail(pat), Tail(s))

---------------------------------------------------------------------------
(* Key namespacing.                                                        *)

\* _server_name = _router.server_name()
ServerName == <<"s">>

\* Redis._fqkn leaving the pool out of the name
fqkn_poolless(pool, key) == ServerName \o <<":">> \o key

\* Redis._fqkn
fqkn(pool, key) == ServerName \o <<":">> \o pool \o <<":">> \o key

\* key_prefix of Redis.keys and the pattern prefix of Redis.clear
KeyPrefix(pool) == ServerName \o <<":">> \o pool \o <<":">>

---------------------------------------------------------------------------
(* The backend: a keyspace of typed entries with an optional expiration.   *)
(* ttl is the number of seconds left as TTL reports it, -1 for none.       *)
(* A hash is the sequence of its [f, v] entries in the backend's order     *)
(* (fields are appended as they are created), a list the sequence of its   *)
(* elements.  Every primitive returns [st, val, err]: the keyspace after   *)
(* it, its reply and the error reply ("" for none).                        *)

WrongType == "WRONGTYPE Operation against a key holding the wrong kind of value"
NoSuchKey == "no such key"
SameObject == "source and destination objects are the same"
BadExpire == "invalid expire time in set"

Reply(st, val, err) == [st |-> st, val |-> val, err |-> err]

Exists(st, k) == k \in DOMAIN st
Drop(st, k) == [x \in DOMAIN st \ {k} |-> st[x]]
Bind(st, k, e) == [x \in DOMAIN st \cup {k} |-> IF x = k THEN e ELSE st[x]]
Entry(ty, val, t) == [type |-> ty, val |-> val, ttl |-> t]
TtlOf(st, k) == IF Exists(st, k) THEN st[k].ttl ELSE -1
IsType(st, k, ty) == Exists(st, k) => st[k].type = ty

\* a set as a sequence, in the order an enumeration happens to produce
RECURSIVE SeqOf(_)
SeqOf(S) ==
    IF S = {} THEN <<>>
    ELSE LET x == CHOOSE y \in S : TRUE IN <<x>> \o SeqOf(S \ {x})

HFields(h) == {h[i].f : i \in 1..Len(h)}
HIndex(h, f) == CHOOSE i \in 1..Len(h) : h[i].f = f
HValue(h, f) == IF f \in HFields(h) THEN h[HIndex(h, f)].v ELSE NilReply
HSetOne(h, f, b) ==
    IF f \in HFields(h)
    THEN [h EXCEPT ![HIndex(h, f)] = [f |-> f, v |-> b]]
    ELSE Append(h, [f |-> f, v |-> b])
HDelOne(h, f) == SelectSeq(h, LAMBDA e : e.f # f)
HashAt(st, k) == IF Exists(st, k) THEN st[k].val ELSE <<>>

\* EXISTS
RExists(st, k) == Reply(st, Exists(st, k), "")

\* TYPE
RType(st, k) == Reply(st, IF Exists(st, k) THEN st[k].type ELSE "none", "")

\* redis-py StrictRedis.set(name, value, ex): releases differ on ex = 0, which
\* is either dropped ("if ex:") or sent and refused by the server
LibFlavours == {"ex_if_truthy", "ex_if_not_none"}
RSet(st, k, b, ex, lib) ==
    IF ex = None \/ (ex = Some(0) /\ lib = "ex_if_truthy")
    THEN Reply(Bind(st, k, Entry("string", b, -1)), TRUE, "")
    ELSE IF ex[1] <= 0 THEN Reply(st, NilReply, BadExpire)
    ELSE Reply(Bind(st, k, Entry("string", b, ex[1])), TRUE, "")

\* GET
RGet(st, k) ==
    IF ~Exists(st, k) THEN Reply(st, NilReply, "")
    ELSE IF st[k].type # "string" THEN Reply(st, NilReply, WrongType)
    ELSE Reply(st, st[k].val, "")

\* HMSET key f v [f v ...]: items is the sequence of [f, v] pairs sent
RECURSIVE HSetAll(_, _)
HSetAll(h, items) ==
    IF items = <<>> THEN h
    ELSE HSetAll(HSetOne(h, Head(items).f, Head(items).v), Tail(items))

RHMSet(st, k, items) ==
    IF ~IsType(st, k, "hash") THEN Reply(st, NilReply, WrongType)
    ELSE Reply(Bind(st, k, Entry("hash", HSetAll(HashAt(st, k), items), TtlOf(st, k))),
               TRUE, "")

\* HSET
RHSet(st, k, f, b) ==
    IF ~IsType(st, k, "hash") THEN Reply(st, NilReply, WrongType)
    ELSE Reply(Bind(st, k, Entry("hash", HSetOne(HashAt(st, k), f, b), TtlOf(st, k))),
               IF f \in HFields(HashAt(st, k)) THEN 0 ELSE 1, "")

\* HMGET: one reply per requested field, nil for a missing one
RHMGet(st, k, fields) ==
    IF ~IsType(st, k, "hash") THEN Reply(st, NilReply, WrongType)
    ELSE Reply(st, [i \in 1..Len(fields) |-> HValue(HashAt(st, k), fields[i])], "")

\* HVALS
RHVals(st, k) ==
    IF ~IsType(st, k, "hash") THEN Reply(st, NilReply, WrongType)
    ELSE Reply(st, [i \in 1..Len(HashAt(st, k)) |-> HashAt(st, k)[i].v], "")

\* HKEYS
RHKeys(st, k) ==
    IF ~IsType(st, k, "hash") THEN Reply(st, NilReply, WrongType)
    ELSE Reply(st, [i \in 1..Len(HashAt(st, k)) |-> HashAt(st, k)[i].f], "")

\* HGET
RHGet(st, k, f) ==
    IF ~IsType(st, k, "hash") THEN Reply(st, NilReply, WrongType)
    ELSE Reply(st, HValue(HashAt(st, k), f), "")

\* HDEL: a hash that loses its last field is deleted
RHDel(st, k, f) ==
    IF ~IsType(st, k, "hash") THEN Reply(st, NilReply, WrongType)
    ELSE IF ~Exists(st, k) \/ f \notin HFields(HashAt(st, k)) THEN Reply(st, 0, "")
    ELSE LET h == HDelOne(st[k].val, f)
         IN  Reply(IF h = <<>> THEN Drop(st, k) ELSE Bind(st, k, [st[k] EXCEPT !.val = h]),
                   1, "")

ListAt(st, k) == IF Exists(st, k) THEN st[k].val ELSE <<>>

\* LLEN
RLLen(st, k) ==
    IF ~IsType(st, k, "list") THEN Reply(st, NilReply, WrongType)
    ELSE Reply(st, Len(ListAt(st, k)), "")

\* LRANGE key start stop: zero-based, stop inclusive, negative from the end
RLRange(st, k, start, stop) ==
    IF ~IsType(st, k, "list") THEN Reply(st, NilReply, WrongType)
    ELSE LET l == ListAt(st, k)
             n == Len(l)
             s0 == IF start < 0 THEN n + start ELSE start
             e0 == IF stop < 0 THEN n + stop ELSE stop
             s1 == IF s0 < 0 THEN 0 ELSE s0
             e1 == IF e0 >= n THEN n - 1 ELSE e0
         IN  Reply(st, IF s1 > e0 \/ s1 >= n THEN <<>> ELSE SubSeq(l, s1 + 1, e1 + 1), "")

\* LPUSH
RLPush(st, k, b) ==
    IF ~IsType(st, k, "list") THEN Reply(st, NilReply, WrongType)
    ELSE Reply(Bind(st, k, Entry("list", <<b>> \o ListAt(st, k), TtlOf(st, k))),
               Len(ListAt(st, k)) + 1, "")

\* RPUSH
RRPush(st, k, b) ==
    IF ~IsType(st, k, "list") THEN Reply(st, NilReply, WrongType)
    ELSE Reply(Bind(st, k, Entry("list", Append(ListAt(st, k), b), TtlOf(st, k))),
               Len(ListAt(st, k)) + 1, "")

\* LPOP: a list that loses its last element is deleted
RLPop(st, k) ==
    IF ~IsType(st, k, "list") THEN Reply(st, NilReply, WrongType)
    ELSE IF ~Exists(st, k) THEN Reply(st, NilReply, "")
    ELSE LET l == Tail(st[k].val)
         IN  Reply(IF l = <<>> THEN Drop(st, k) ELSE Bind(st, k, [st[k] EXCEPT !.val = l]),
                   Head(st[k].val), "")

\* RPOP
RRPop(st, k) ==
    IF ~IsType(st, k, "list") THEN Reply(st, NilReply, WrongType)
    ELSE IF ~Exists(st, k) THEN Reply(st, NilReply, "")
    ELSE LET n == Len(st[k].val)
             l == SubSeq(st[k].val, 1, n - 1)
         IN  Reply(IF l = <<>> THEN Drop(st, k) ELSE Bind(st, k, [st[k] EXCEPT !.val = l]),
                   st[k].val[n], "")

\* EXPIRE: a timeout that is not positive deletes the key at once
RExpire(st, k, t) ==
    IF ~Exists(st, k) THEN Reply(st, FALSE, "")
    ELSE IF t <= 0 THEN Reply(Drop(st, k), TRUE, "")
    ELSE Reply(Bind(st, k, [st[k] EXCEPT !.ttl = t]), TRUE, "")

\* TTL: -2 for no key, -1 for a key with no expiration
RTtl(st, k) == Reply(st, IF Exists(st, k) THEN st[k].ttl ELSE -2, "")

\* RENAME: the entry moves with its expiration and replaces the destination;
\* servers differ on source = destination (an error before 3.2, a no-op since)
ServerFlavours == {"rename_same_is_error", "rename_same_is_ok"}
RRename(st, k, k2, srv) ==
    IF ~Exists(st, k) THEN Reply(st, NilReply, NoSuchKey)
    ELSE IF k = k2
         THEN IF srv = "rename_same_is_error" THEN Reply(st, NilReply, SameObject)
              ELSE Reply(st, TRUE, "")
    ELSE Reply(Bind(Drop(st, k), k2, st[k]), TRUE, "")

\* DEL
RDelete(st, k) == Reply(Drop(st, k), IF Exists(st, k) THEN 1 ELSE 0, "")

\* KEYS pattern
RKeys(st, pat) == Reply(st, SeqOf({k \in DOMAIN st : GlobMatch(pat, k)}), "")

\* the passing of one second: a key whose time is up is removed
Expire(st) ==
    LET live == {k \in DOMAIN st : st[k].ttl # 0}
    IN  [k \in live |-> IF st[k].ttl > 0 THEN [st[k] EXCEPT !.ttl = @ - 1] ELSE st[k]]

---------------------------------------------------------------------------
(* The driver.  Every method is an operator of the keyspace and the call's *)
(* arguments giving [st, ret, err, berr]: the keyspace after the call, the *)
(* value returned, the exception raised ([kind |-> "none"] for none) and   *)
(* the backend's error reply that caused it ("" for none).                 *)

NoErr == [kind |-> "none"]
NoRet == "-"
KeyNotExist(pool, key) == [kind |-> "KeyNotExist", pool |-> pool, key |-> key]
HashKeyNotExists(pool, key, f) ==
    [kind |-> "HashKeyNotExists", pool |-> pool, key |-> key, field |-> f]
ResponseError(msg) == [kind |-> "ResponseError", msg |-> msg]
AttributeError == [kind |-> "AttributeError"]
IndexError == [kind |-> "IndexError"]

Ok(st, ret) == [st |-> st, ret |-> ret, err |-> NoErr, berr |-> ""]
Raise(st, err) == [st |-> st, ret |-> NoRet, err |-> err, berr |-> ""]
\* an error reply of the backend that the driver does not catch
Fail(r) == [st |-> r.st, ret |-> NoRet, err |-> ResponseError(r.err), berr |-> r.err]
Raised(res) == res.err.kind # "none"

\* _TYPES_MAP
TYPES_MAP == [string |-> "str", list |-> "list", set |-> "set", zset |-> "set", hash |-> "dict"]

\* the field that marks an empty hash, and its value
Marker == "__pytsite_empty_hash_marker"
MarkerValue == "True"

\* Python dicts are functions from field names to values
EmptyDict == [f \in {} |-> PyNone]
DictSet(d, f, v) == [x \in DOMAIN d \cup {f} |-> IF x = f THEN v ELSE d[x]]
\* {k: _pickle.dumps(v) for k, v in value.items()} as HMSET sends it
DumpItems(d) ==
    LET fs == SeqOf(DOMAIN d)
    IN  [i \in 1..Len(fs) |-> [f |-> fs[i], v |-> dumps(d[fs[i]])]]

\* Redis.keys yielding the backend's keys as they are, prefix and all
keys_unstripped(st, pool) ==
    LET found == RKeys(st, KeyPrefix(pool) \o <<"*">>).val
    IN  Ok(st, [n \in {found[i] : i \in 1..Len(found)} |-> 1])

\* Redis.keys: the multiset of the names yielded, name -> number of times
keys(st, pool) ==
    LET key_prefix == KeyPrefix(pool)
        found == RKeys(st, key_prefix \o <<"*">>).val
        names == {StrRemoveAll(found[i], key_prefix) : i \in 1..Len(found)}
    IN  Ok(st, [n \in names |->
                  Cardinality({i \in 1..Len(found) : StrRemoveAll(found[i], key_prefix) = n})])

\* Redis.has
has(st, pool, key) == Ok(st, RExists(st, fqkn(pool, key)).val)

\* Redis.type
type(st, pool, key) ==
    LET t == RType(st, fqkn(pool, key)).val
    IN  IF t \in DOMAIN TYPES_MAP THEN Ok(st, TYPES_MAP[t])
        ELSE Raise(st, KeyNotExist(pool, key))

\* Redis.put
put(st, pool, key, value, t, lib) ==
    LET r == RSet(st, fqkn(pool, key), dumps(value), t, lib)
    IN  IF r.err # "" THEN Fail(r) ELSE Ok(r.st, value)

\* Redis.get
get(st, pool, key) ==
    LET r == RGet(st, fqkn(pool, key))
    IN  IF r.err # "" THEN Fail(r)
        ELSE IF r.val = NilReply THEN Raise(st, KeyNotExist(pool, key))
        ELSE Ok(st, loads(r.val))

\* Redis.expire
expire(st, pool, key, t) ==
    LET r == RExpire(st, fqkn(pool, key), t) IN Ok(r.st, r.val)

\* "if ttl:" of put_hash and put_hash_item
TtlTruthy(t) == t # None /\ t[1] # 0

\* Redis.put_hash
put_hash(st, pool, key, value, t) ==
    LET value1 == IF DOMAIN value = {} THEN DictSet(EmptyDict, Marker, MarkerValue) ELSE value
        key1 == fqkn(pool, key)
        r == RHMSet(st, key1, DumpItems(value1))
    IN  IF r.err # "" THEN Fail(r)
        ELSE Ok(IF TtlTruthy(t) THEN RExpire(r.st, key1, t[1]).st ELSE r.st, value1)

\* Redis.put_hash_item
put_hash_item(st, pool, key, item_key, value, t) ==
    LET key1 == fqkn(pool, key)
        r == RHSet(st, key1, item_key, dumps(value))
    IN  IF r.err # "" THEN Fail(r)
        ELSE Ok(IF TtlTruthy(t) THEN RExpire(r.st, key1, t[1]).st ELSE r.st, value)

\* the loop of Redis.get_hash over the replies; enc is the type of the
\* elements of hash_keys: "bytes" as HKEYS replies, "str" as callers pass
RECURSIVE GetHashLoop(_, _, _, _, _, _, _, _)
GetHashLoop(st, pool, key1, values, hash_keys, enc, i, r) ==
    IF i > Len(values) THEN Ok(st, r)
    ELSE IF values[i] = NilReply
         THEN IF i > Len(hash_keys) THEN Raise(st, IndexError)
              ELSE Raise(st, HashKeyNotExists(pool, key1, hash_keys[i]))
    ELSE IF i > Len(hash_keys) THEN Raise(st, IndexError)
    ELSE IF enc = "str" THEN Raise(st, AttributeError)
    ELSE LET k == hash_keys[i]
         IN  GetHashLoop(st, pool, key1, values, hash_keys, enc, i + 1,
                         IF k # Marker THEN DictSet(r, k, loads(values[i])) ELSE r)

\* Redis.get_hash: hash_keys is a sequence of field names, empty for None
get_hash(st, pool, key, hash_keys, enc) ==
    IF ~has(st, pool, key).ret THEN Raise(st, KeyNotExist(pool, key))
    ELSE LET key1 == fqkn(pool, key)
             vr == IF hash_keys # <<>> THEN RHMGet(st, key1, hash_keys) ELSE RHVals(st, key1)
             kr == RHKeys(st, key1)
         IN  IF vr.err # "" THEN Fail(vr)
             ELSE IF hash_keys = <<>> /\ kr.err # "" THEN Fail(kr)
             ELSE GetHashLoop(st, pool, key1, vr.val,
                              IF hash_keys = <<>> THEN kr.val ELSE hash_keys,
                              IF hash_keys = <<>> THEN "bytes" ELSE enc, 1, EmptyDict)

\* Redis.get_hash_item testing the loaded value, not the reply, for truth
get_hash_item_value_truthy(st, pool, key, item_key, default) ==
    IF ~has(st, pool, key).ret THEN Raise(st, KeyNotExist(pool, key))
    ELSE LET r == RHGet(st, fqkn(pool, key), item_key)
         IN  IF r.err # "" THEN Fail(r)
             ELSE Ok(st, IF BytesTruthy(r.val) /\ loads(r.val) \notin {"None", "0", "False", ""}
                         THEN loads(r.val) ELSE default)

\* Redis.get_hash_item
get_hash_item(st, pool, key, item_key, default) ==
    IF ~has(st, pool, key).ret THEN Raise(st, KeyNotExist(pool, key))
    ELSE LET r == RHGet(st, fqkn(pool, key), item_key)
         IN  IF r.err # "" THEN Fail(r)
             ELSE Ok(st, IF BytesTruthy(r.val) THEN loads(r.val) ELSE default)

\* Redis.rm_hash_item deleting the key instead of the field
rm_hash_item_deletes_key(st, pool, key, item_key) ==
    Ok(RDelete(st, fqkn(pool, key)).st, PyNone)

\* Redis.rm_hash_item
rm_hash_item(st, pool, key, item_key) ==
    LET r == RHDel(st, fqkn(pool, key), item_key)
    IN  IF r.err # "" THEN Fail(r) ELSE Ok(r.st, PyNone)

\* Redis.list_len without the existence check before LLEN
list_len_unchecked(st, pool, key) ==
    LET r == RLLen(st, fqkn(pool, key))
    IN  IF r.err # "" THEN Fail(r) ELSE Ok(st, r.val)

\* Redis.list_len
list_len(st, pool, key) ==
    IF ~has(st, pool, key).ret THEN Raise(st, KeyNotExist(pool, key))
    ELSE LET r == RLLen(st, fqkn(pool, key))
         IN  IF r.err # "" THEN Fail(r) ELSE Ok(st, r.val)

\* Redis.get_list: end is None or Some(n)
get_list(st, pool, key, start, end) ==
    IF ~has(st, pool, key).ret THEN Raise(st, KeyNotExist(pool, key))
    ELSE LET n == list_len(st, pool, key)
         IN  IF end = None /\ Raised(n) THEN n
             ELSE LET end1 == IF end = None THEN n.ret ELSE end[1] - 1
                      r == RLRange(st, fqkn(pool, key), start, end1)
                  IN  IF r.err # "" THEN Fail(r)
                      ELSE Ok(st, [i \in 1..Len(r.val) |-> loads(r.val[i])])

\* Redis.list_l_push
list_l_push(st, pool, key, value, t) ==
    LET r == RLPush(st, fqkn(pool, key), dumps(value))
    IN  IF r.err # "" THEN Fail(r)
        ELSE Ok(IF t # None THEN expire(r.st, pool, key, t[1]).st ELSE r.st, value)

\* Redis.list_r_push
list_r_push(st, pool, key, value, t) ==
    LET r == RRPush(st, fqkn(pool, key), dumps(value))
    IN  IF r.err # "" THEN Fail(r)
        ELSE Ok(IF t # None THEN expire(r.st, pool, key, t[1]).st ELSE r.st, r.val)

\* Redis.list_l_pop taking the element from the tail
list_l_pop_from_tail(st, pool, key) ==
    LET r == RRPop(st, fqkn(pool, key))
    IN  IF r.err # "" THEN Fail(r)
        ELSE IF ~BytesTruthy(r.val) THEN Raise(st, KeyNotExist(pool, key))
        ELSE Ok(r.st, loads(r.val))

\* Redis.list_l_pop
list_l_pop(st, pool, key) ==
    LET r == RLPop(st, fqkn(pool, key))
    IN  IF r.err # "" THEN Fail(r)
        ELSE IF ~BytesTruthy(r.val) THEN Raise(st, KeyNotExist(pool, key))
        ELSE Ok(r.st, loads(r.val))

\* Redis.list_r_pop
list_r_pop(st, pool, key) ==
    LET r == RRPop(st, fqkn(pool, key))
    IN  IF r.err # "" THEN Fail(r)
        ELSE IF ~BytesTruthy(r.val) THEN Raise(st, KeyNotExist(pool, key))
        ELSE Ok(r.st, loads(r.val))

\* Redis.ttl with "r > 0" for "r >= 0": a last second reported as no expiration
ttl_zero_is_none(st, pool, key) ==
    LET key1 == fqkn(pool, key)
        r == RTtl(st, key1).val
    IN  IF r = -2 THEN Raise(st, KeyNotExist(pool, key1))
        ELSE Ok(st, IF r > 0 THEN Some(r) ELSE None)

\* Redis.ttl: the result is None or Some(seconds)
ttl(st, pool, key) ==
    LET key1 == fqkn(pool, key)
        r == RTtl(st, key1).val
    IN  IF r = -2 THEN Raise(st, KeyNotExist(pool, key1))
        ELSE Ok(st, IF r >= 0 THEN Some(r) ELSE None)

\* Redis.rnm renaming the keys as given, without their namespace
rnm_unqualified(st, pool, key, new_key, srv) ==
    LET r == RRename(st, key, new_key, srv)
    IN  IF r.err = "" THEN Ok(r.st, PyNone)
        ELSE IF r.err = "no such key"
             THEN [Raise(st, KeyNotExist(pool, key)) EXCEPT !.berr = r.err]
        ELSE Fail(r)

\* Redis.rnm
rnm(st, pool, key, new_key, srv) ==
    LET r == RRename(st, fqkn(pool, key), fqkn(pool, new_key), srv)
    IN  IF r.err = "" THEN Ok(r.st, PyNone)
        ELSE IF r.err = "no such key"
             THEN [Raise(st, KeyNotExist(pool, key)) EXCEPT !.berr = r.err]
        ELSE Fail(r)

\* Redis.rm deleting the key as given, without its namespace
rm_unqualified(st, pool, key) == Ok(RDelete(st, key).st, PyNone)

\* Redis.rm
rm(st, pool, key) == Ok(RDelete(st, fqkn(pool, key)).st, PyNone)

\* the pushes of Redis.put_list, in order, stopping at the first that raises
RECURSIVE PushAll(_, _, _, _)
PushAll(st, pool, key, value) ==
    IF value = <<>> THEN Ok(st, PyNone)
    ELSE LET r == list_r_push(st, pool, key, Head(value), None)
         IN  IF Raised(r) THEN r ELSE PushAll(r.st, pool, key, Tail(value))

\* Redis.put_list appending to what the key holds, without removing it first
put_list_no_rm(st, pool, key, value, t) ==
    LET r == PushAll(st, pool, key, value)
    IN  IF Raised(r) THEN r
        ELSE Ok(IF t # None THEN expire(r.st, pool, key, t[1]).st ELSE r.st, value)

\* Redis.put_list
put_list(st, pool, key, value, t) ==
    LET r == PushAll(rm(st, pool, key).st, pool, key, value)
    IN  IF Raised(r) THEN r
        ELSE Ok(IF t # None THEN expire(r.st, pool, key, t[1]).st ELSE r.st, value)

\* Redis.cleanup
cleanup(st, pool) == Ok(st, PyNone)

\* the deletions of Redis.clear, one per key found
RECURSIVE DeleteAll(_, _)
DeleteAll(st, found) ==
    IF found = <<>> THEN st ELSE DeleteAll(RDelete(st, Head(found)).st, Tail(found))

\* Redis.clear with a pattern that lacks the server name
clear_unqualified(st, pool) ==
    Ok(DeleteAll(st, RKeys(st, pool \o <<":", "*">>).val), PyNone)

\* Redis.clear
clear(st, pool) ==
    Ok(DeleteAll(st, RKeys(st, KeyPrefix(pool) \o <<"*">>).val), PyNone)

---------------------------------------------------------------------------
(* Calls.  One action per driver method: the whole call, from the state    *)
(* it starts in to the state it leaves, with what it returned or raised.   *)

NoArg == [none |-> TRUE]

Call(op, pool, key, arg, res) ==
    /\ store' = res.st
    /\ prev' = store
    /\ last' = [op |-> op, pool |-> pool, key |-> key, arg |-> arg,
                ret |-> res.ret, err |-> res.err, berr |-> res.berr]

\* no read is in progress
Idle ==
    [pc |-> "idle", op |-> "", pool |-> <<>>, key |-> <<>>, arg |-> NoArg,
     values |-> <<>>, n |-> 0, seenHash |-> {}, seenList |-> {}, during |-> {},
     ret |-> NoRet, err |-> NoErr]

\* a call made as a whole, which the reference map does not follow
Quiet(op, pool, key, arg, res) == Call(op, pool, key, arg, res) /\ UNCHANGED <<ref, call>>

Keys(p) == Quiet("keys", p, <<>>, NoArg, keys(store, p))
Has(p, k) == Quiet("has", p, k, NoArg, has(store, p, k))
Type(p, k) == Quiet("type", p, k, NoArg, type(store, p, k))
Put(p, k, v, t, lib) ==
    Quiet("put", p, k, [value |-> v, ttl |-> t], put(store, p, k, v, t, lib))
Get(p, k) == Quiet("get", p, k, NoArg, get(store, p, k))
PutHash(p, k, m, t) ==
    Quiet("put_hash", p, k, [value |-> m, ttl |-> t], put_hash(store, p, k, m, t))
PutHashItem(p, k, f, v, t) ==
    Quiet("put_hash_item", p, k, [item_key |-> f, value |-> v, ttl |-> t],
         put_hash_item(store, p, k, f, v, t))
GetHash(p, k, fs, enc) ==
    Quiet("get_hash", p, k, [hash_keys |-> fs, enc |-> enc], get_hash(store, p, k, fs, enc))
GetHashItem(p, k, f, d) ==
    Quiet("get_hash_item", p, k, [item_key |-> f, default |-> d],
         get_hash_item(store, p, k, f, d))
RmHashItem(p, k, f) ==
    Quiet("rm_hash_item", p, k, [item_key |-> f], rm_hash_item(store, p, k, f))
ListLen(p, k) == Quiet("list_len", p, k, NoArg, list_len(store, p, k))
GetList(p, k, start, end) ==
    Quiet("get_list", p, k, [start |-> start, end |-> end], get_list(store, p, k, start, end))
PutList(p, k, l, t) ==
    Quiet("put_list", p, k, [value |-> l, ttl |-> t], put_list(store, p, k, l, t))
ListLPush(p, k, v, t) ==
    /\ Len(ListAt(store, fqkn(p, k))) < MaxLen
    /\ Quiet("list_l_push", p, k, [value |-> v, ttl |-> t], list_l_push(store, p, k, v, t))
ListRPush(p, k, v, t) ==
    /\ Len(ListAt(store, fqkn(p, k))) < MaxLen
    /\ Quiet("list_r_push", p, k, [value |-> v, ttl |-> t], list_r_push(store, p, k, v, t))
ListLPop(p, k) == Quiet("list_l_pop", p, k, NoArg, list_l_pop(store, p, k))
ListRPop(p, k) == Quiet("list_r_pop", p, k, NoArg, list_r_pop(store, p, k))
ExpireKey(p, k, t) == Quiet("expire", p, k, [ttl |-> t], expire(store, p, k, t))
Ttl(p, k) == Quiet("ttl", p, k, NoArg, ttl(store, p, k))
Rnm(p, k, k2, srv) == Quiet("rnm", p, k, [new_key |-> k2], rnm(store, p, k, k2, srv))
Rm(p, k) == Quiet("rm", p, k, NoArg, rm(store, p, k))
Cleanup(p) == Quiet("cleanup", p, <<>>, NoArg, cleanup(store, p))
Clear(p) == Quiet("clear", p, <<>>, NoArg, clear(store, p))

\* one second passes on the backend
Tick ==
    /\ \E k \in DOMAIN store : store[k].ttl >= 0
    /\ Quiet("tick", <<>>, <<>>, NoArg, Ok(Expire(store), PyNone))

EmptyStore == [k \in {} |-> Entry("string", NilReply, -1)]

Init ==
    /\ store = EmptyStore
    /\ prev = EmptyStore
    /\ last = [op |-> "init", pool |-> <<>>, key |-> <<>>, arg |-> NoArg,
               ret |-> NoRet, err |-> NoErr, berr |-> ""]
    /\ ref = [pk \in {} |-> [v |-> PyNone, ttl |-> -1]]
    /\ call = Idle

---------------------------------------------------------------------------
(* Names and values the calls are tried with.                              *)

PoolP == <<"p">>
PoolQ == <<"q">>
KeyA == <<"a">>
KeyB == <<"b">>

TtlArgs == {None} \cup {Some(n) : n \in 0..MaxTTL}

\* the releases of the client library and of the server that differ on a call
LibsFor(t) == IF t = Some(0) THEN LibFlavours ELSE {"ex_if_not_none"}
ServersFor(k, k2) == IF k = k2 THEN ServerFlavours ELSE {"rename_same_is_ok"}

---------------------------------------------------------------------------
(* The driver as a whole: every method on the two keys of one pool, with   *)
(* values of each shape.                                                   *)

Pools == {PoolP}
Names == {KeyA, KeyB}
Dict1(f, v) == DictSet(EmptyDict, f, v)
HashArgs == {EmptyDict, Dict1("f", "x")}
ListArgs == {<<"x">>, <<"x", "y">>}

Next ==
    \E p \in Pools :
       \/ Keys(p)
       \/ Cleanup(p)
       \/ Clear(p)
       \/ \E k \in Names :
             \/ Has(p, k)
             \/ Type(p, k)
             \/ \E t \in {None, Some(1)} : Put(p, k, "x", t, "ex_if_not_none")
             \/ Get(p, k)
             \/ \E m \in HashArgs : PutHash(p, k, m, None)
             \/ PutHashItem(p, k, "f", "x", None)
             \/ GetHash(p, k, <<>>, "bytes")
             \/ GetHashItem(p, k, "f", "dflt")
             \/ RmHashItem(p, k, "f")
             \/ ListLen(p, k)
             \/ GetList(p, k, 0, None)
             \/ \E l \in ListArgs : PutList(p, k, l, None)
             \/ ListLPush(p, k, "x", None)
             \/ ListRPush(p, k, "x", None)
             \/ ListLPop(p, k)
             \/ ListRPop(p, k)
             \/ ExpireKey(p, k, 1)
             \/ Ttl(p, k)
             \/ \E k2 \in Names : \E srv \in ServersFor(k, k2) : Rnm(p, k, k2, srv)
             \/ Rm(p, k)

Spec == Init /\ [][Next]_vars

\* the arguments the reads are evaluated with
ReadFields == {"f", "g", Marker}
ReadRanges == 0..(MaxLen + 1)

\* a call just made on a key that was absent raised KeyNotExist and changed
\* nothing
C2_AbsentKeyRaisedLast ==
    (/\ last.op \in {"get", "get_hash", "get_hash_item", "list_len", "get_list", "ttl",
                     "type", "list_l_pop", "list_r_pop", "rnm"}
     /\ ~Exists(prev, fqkn(last.pool, last.key)))
       => (last.err.kind = "KeyNotExist" /\ store = prev)

\* C2: on a key that is absent from the backend, get, get_hash,
\* get_hash_item, list_len, get_list, ttl, type, list_l_pop, list_r_pop and
\* rnm all raise KeyNotExist, whatever their other arguments, and leave the
\* backend as it was.
C2_AbsentKeyRaises ==
    /\ C2_AbsentKeyRaisedLast
    /\ \A p \in Pools, k \in Names :
       ~Exists(store, fqkn(p, k)) =>
          \A r \in {get(store, p, k), list_len(store, p, k), ttl(store, p, k),
                    type(store, p, k), list_l_pop(store, p, k), list_r_pop(store, p, k)}
                \cup {get_hash(store, p, k, fs, enc) :
                         fs \in {<<>>, <<"f">>, <<"f", "g">>}, enc \in {"str", "bytes"}}
                \cup {get_hash_item(store, p, k, f, d) : f \in ReadFields, d \in {PyNone, "dflt"}}
                \cup {get_list(store, p, k, i, e) :
                         i \in ReadRanges, e \in {None} \cup {Some(j) : j \in ReadRanges}}
                \cup {rnm(store, p, k, k2, srv) : k2 \in Names, srv \in ServerFlavours} :
             r.err.kind = "KeyNotExist" /\ r.st = store

\* a pop was tried on an absent key while the pool's other key held a list
C2_Witness ==
    /\ last.op = "list_l_pop" /\ last.err.kind = "KeyNotExist"
    /\ ~Exists(prev, fqkn(last.pool, last.key))
    /\ \E k \in DOMAIN store : store[k].type = "list"

\* C8: rnm of a present key to another name moves its value and expiration:
\* the old name is gone, the new one holds the entry the old one held
\* (whatever it held before) and no other key changes; rnm of an absent key
\* raises KeyNotExist and changes nothing; any other error reply of the
\* backend is raised as it came.
C8_RnmMoves ==
    last.op = "rnm" =>
       LET k1 == fqkn(last.pool, last.key)
           k2 == fqkn(last.pool, last.arg.new_key)
       IN  /\ (Exists(prev, k1) /\ k1 # k2) =>
                 /\ last.err = NoErr
                 /\ ~Exists(store, k1)
                 /\ Exists(store, k2) /\ store[k2] = prev[k1]
                 /\ \A x \in (DOMAIN prev \cup DOMAIN store) \ {k1, k2} :
                       Exists(prev, x) /\ Exists(store, x) /\ store[x] = prev[x]
           /\ ~Exists(prev, k1) =>
                 last.err = KeyNotExist(last.pool, last.key) /\ store = prev
           /\ last.berr \notin {"", NoSuchKey} =>
                 last.err = ResponseError(last.berr) /\ store = prev

\* a hash with an expiration was renamed over a key that held a value with
\* none
C8_Witness ==
    /\ last.op = "rnm" /\ last.err = NoErr
    /\ last.key # last.arg.new_key
    /\ prev[fqkn(last.pool, last.key)].type = "hash"
    /\ prev[fqkn(last.pool, last.key)].ttl = 1
    /\ Exists(prev, fqkn(last.pool, last.arg.new_key))
    /\ prev[fqkn(last.pool, last.arg.new_key)].ttl = -1

---------------------------------------------------------------------------
(* The hash store: one key, written as a hash of up to two fields, as a    *)
(* scalar and as a list, and read back.                                    *)

HashFields == {"f", "g"}
HashValues == {"0", "x"}
\* every dict over a subset of the fields
HashDicts == UNION {[fs -> HashValues] : fs \in SUBSET HashFields}
FieldLists == {<<>>, <<"f">>, <<"f", "g">>}

NextHash ==
    \E p \in Pools, k \in {KeyA} :
       \/ \E m \in HashDicts, t \in TtlArgs : PutHash(p, k, m, t)
       \/ \E f \in HashFields, v \in HashValues, t \in TtlArgs : PutHashItem(p, k, f, v, t)
       \/ \E fs \in FieldLists, enc \in {"str", "bytes"} : GetHash(p, k, fs, enc)
       \/ \E f \in ReadFields, d \in {PyNone, "dflt"} : GetHashItem(p, k, f, d)
       \/ \E f \in ReadFields : RmHashItem(p, k, f)
       \/ Has(p, k)
       \/ Put(p, k, "x", None, "ex_if_not_none")
       \/ PutList(p, k, <<"x">>, None)
       \/ Rm(p, k)

SpecHash == Init /\ [][NextHash]_vars

\* C3: after put_hash(p,k,{}) on any prior state of k, has(p,k) is true and
\* get_hash(p,k) returns the empty mapping; get_hash of a key that does not
\* exist raises KeyNotExist.
C3_EmptyHashStored ==
    /\ (last.op = "put_hash" /\ DOMAIN last.arg.value = {}) =>
          /\ has(store, last.pool, last.key).ret
          /\ LET g == get_hash(store, last.pool, last.key, <<>>, "bytes")
             IN  g.err = NoErr /\ g.ret = EmptyDict
    /\ \A p \in Pools, k \in {KeyA} :
          ~Exists(store, fqkn(p, k)) =>
             get_hash(store, p, k, <<>>, "bytes").err.kind = "KeyNotExist"

\* C4: put_hash replaces: after put_hash(p,k,m) on a key that held a hash,
\* get_hash(p,k) returns exactly m.
C4_PutHashReplaces ==
    (/\ last.op = "put_hash"
     /\ Exists(prev, fqkn(last.pool, last.key))
     /\ prev[fqkn(last.pool, last.key)].type = "hash") =>
       LET g == get_hash(store, last.pool, last.key, <<>>, "bytes")
       IN  g.err = NoErr /\ g.ret = last.arg.value

---------------------------------------------------------------------------
(* The list store: one key, written as a list of up to MaxLen elements, as *)
(* a scalar and as a hash, pushed to, popped from and read back.           *)

ListValues == {"x", "y"}
ListSeqs == UNION {[1..n -> ListValues] : n \in 0..MaxLen}
Ends == {None} \cup {Some(j) : j \in ReadRanges}

NextList ==
    \E p \in Pools, k \in {KeyA} :
       \/ \E l \in ListSeqs, t \in TtlArgs : PutList(p, k, l, t)
       \/ \E i \in ReadRanges, e \in Ends : GetList(p, k, i, e)
       \/ ListLen(p, k)
       \/ \E v \in ListValues, t \in TtlArgs : ListLPush(p, k, v, t)
       \/ \E v \in ListValues, t \in TtlArgs : ListRPush(p, k, v, t)
       \/ ListLPop(p, k)
       \/ ListRPop(p, k)
       \/ Put(p, k, "x", Some(1), "ex_if_not_none")
       \/ PutHash(p, k, Dict1("f", "x"), None)
       \/ Rm(p, k)

SpecList == Init /\ [][NextList]_vars

\* the Python values of a backend list
Loaded(l) == [i \in 1..Len(l) |-> loads(l[i])]
\* l[start:end] for start, end >= 0
PySlice(l, start, end) == SubSeq(l, start + 1, IF end < Len(l) THEN end ELSE Len(l))

\* C5: get_list is half-open: on a key holding the list L, for all start >= 0
\* and end >= 0, get_list(p,k,start,end) returns L[start:end], and with end
\* omitted L[start:].
C5_GetListHalfOpen ==
    \A p \in Pools, k \in {KeyA} :
       (Exists(store, fqkn(p, k)) /\ store[fqkn(p, k)].type = "list") =>
          LET L == Loaded(store[fqkn(p, k)].val)
          IN  \A i \in ReadRanges :
                 /\ get_list(store, p, k, i, None).ret = PySlice(L, i, Len(L))
                 /\ \A j \in ReadRanges :
                       get_list(store, p, k, i, Some(j)).ret = PySlice(L, i, j)

\* C6: put_list replaces and keeps order: after put_list(p,k,s) with s not
\* empty (and no ttl of 0, which removes the key at once), whatever the key
\* held, get_list(p,k) returns s, list_len(p,k) is the length of s and
\* put_list returned s.
C6_PutListReplaces ==
    (last.op = "put_list" /\ last.arg.value # <<>> /\ last.arg.ttl # Some(0)) =>
       /\ last.err = NoErr /\ last.ret = last.arg.value
       /\ LET g == get_list(store, last.pool, last.key, 0, None)
              n == list_len(store, last.pool, last.key)
          IN  /\ g.err = NoErr /\ g.ret = last.arg.value
              /\ n.err = NoErr /\ n.ret = Len(last.arg.value)

\* a list of two different elements was put over a hash
C6_Witness ==
    /\ last.op = "put_list" /\ last.arg.value = <<"y", "x">>
    /\ Exists(prev, fqkn(last.pool, last.key))
    /\ prev[fqkn(last.pool, last.key)].type = "hash"
    /\ Exists(store, fqkn(last.pool, last.key))

---------------------------------------------------------------------------
(* Enumeration and bulk removal: keys and clear on pools whose names are   *)
(* plain or hold characters the backend's pattern gives a meaning to, with *)
(* keys that are plain or hold a pool's prefix.                            *)

PoolStar == <<"*">>
PoolClass == <<"[", "p", "]">>
KeyPrefixed == <<"s", ":", "p", ":", "a">>

EnumPools == {PoolP, PoolStar, PoolClass}
EnumKeys == {KeyA, KeyB, KeyPrefixed}
\* the names written as scalar, hash and list, and those written as scalar
ShapedNames == {<<PoolP, KeyA>>, <<PoolP, KeyB>>}
ScalarOnlyNames == {<<PoolP, KeyPrefixed>>, <<PoolStar, KeyA>>, <<PoolClass, KeyA>>}

NextEnum ==
    \/ \E p \in EnumPools : Keys(p)
    \/ \E p \in EnumPools : Clear(p)
    \/ \E pk \in ShapedNames \cup ScalarOnlyNames :
          \/ Put(pk[1], pk[2], "x", None, "ex_if_not_none")
          \/ Rm(pk[1], pk[2])
          \/ Has(pk[1], pk[2])
          \/ Get(pk[1], pk[2])
    \/ \E pk \in ShapedNames :
          \/ PutHash(pk[1], pk[2], EmptyDict, None)
          \/ PutList(pk[1], pk[2], <<"x">>, None)

SpecEnum == Init /\ [][NextEnum]_vars

Chars(str) == {str[i] : i \in 1..Len(str)}
StrContains(str, sub) == StrRemoveAll(str, sub) # str
\* the logical keys of a pool that has(p,k) is true of, among the keys in use
\* and those an enumeration named
HasSet(st, p, named) == {k \in EnumKeys \cup named : has(st, p, k).ret}
KeysExact(st, p) ==
    LET r == keys(st, p)
    IN  /\ r.err = NoErr
        /\ DOMAIN r.ret = HasSet(st, p, DOMAIN r.ret)
        /\ \A n \in DOMAIN r.ret : r.ret[n] = 1

PatternChars == {"*", "?", "[", "]", "\\"}
Cleared(p) ==
    /\ DOMAIN keys(store, p).ret = {}
    /\ \A k \in EnumKeys :
          has(prev, p, k).ret => get(store, p, k).err.kind = "KeyNotExist"

---------------------------------------------------------------------------
(* The scalar store against a reference map: put, get, rm, rnm, clear and  *)
(* ttl on two pools, with time passing.  ref is what a plain map with      *)
(* expirations would hold after the same calls.                            *)

ScalarPools == {PoolP, PoolQ}
ScalarNames == {<<PoolP, KeyA>>, <<PoolP, KeyB>>, <<PoolQ, KeyA>>}
ScalarValues == {"None", "x"}

RefBind(r, pk, e) == [x \in DOMAIN r \cup {pk} |-> IF x = pk THEN e ELSE r[x]]
RefDrop(r, pks) == [x \in DOMAIN r \ pks |-> r[x]]
RefPut(r, p, k, v, t) ==
    RefBind(r, <<p, k>>, [v |-> v, ttl |-> IF t = None \/ t = Some(0) THEN -1 ELSE t[1]])
RefRnm(r, p, k, k2) ==
    IF <<p, k>> \notin DOMAIN r \/ k = k2 THEN r
    ELSE RefBind(RefDrop(r, {<<p, k>>}), <<p, k2>>, r[<<p, k>>])
RefClear(r, p) == RefDrop(r, {pk \in DOMAIN r : pk[1] = p})
RefTick(r) ==
    LET live == {pk \in DOMAIN r : r[pk].ttl # 0}
    IN  [pk \in live |-> IF r[pk].ttl > 0 THEN [r[pk] EXCEPT !.ttl = @ - 1] ELSE r[pk]]

\* the calls of the scalar store, each followed by the reference map
PutRef(p, k, v, t, lib) ==
    /\ Call("put", p, k, [value |-> v, ttl |-> t], put(store, p, k, v, t, lib))
    /\ ref' = IF last'.err = NoErr THEN RefPut(ref, p, k, v, t) ELSE ref
    /\ UNCHANGED call
RmRef(p, k) ==
    /\ Call("rm", p, k, NoArg, rm(store, p, k))
    /\ ref' = RefDrop(ref, {<<p, k>>})
    /\ UNCHANGED call
RnmRef(p, k, k2, srv) ==
    /\ Call("rnm", p, k, [new_key |-> k2], rnm(store, p, k, k2, srv))
    /\ ref' = RefRnm(ref, p, k, k2)
    /\ UNCHANGED call
ClearRef(p) ==
    /\ Call("clear", p, <<>>, NoArg, clear(store, p))
    /\ ref' = RefClear(ref, p)
    /\ UNCHANGED call
TickRef ==
    /\ \E k \in DOMAIN store : store[k].ttl >= 0
    /\ Call("tick", <<>>, <<>>, NoArg, Ok(Expire(store), PyNone))
    /\ ref' = RefTick(ref)
    /\ UNCHANGED call

NextScalar ==
    \/ \E pk \in ScalarNames, v \in ScalarValues, t \in TtlArgs : \E lib \in LibsFor(t) :
          PutRef(pk[1], pk[2], v, t, lib)
    \/ \E pk \in ScalarNames : Get(pk[1], pk[2])
    \/ \E pk \in ScalarNames : Ttl(pk[1], pk[2])
    \/ \E pk \in ScalarNames : RmRef(pk[1], pk[2])
    \/ \E pk \in ScalarNames, pk2 \in ScalarNames : \E srv \in ServersFor(pk[2], pk2[2]) :
          pk[1] = pk2[1] /\ RnmRef(pk[1], pk[2], pk2[2], srv)
    \/ \E p \in ScalarPools : ClearRef(p)
    \/ TickRef

SpecScalar == Init /\ [][NextScalar]_vars

\* C1: the scalar store agrees with the reference map: get returns the value
\* the map holds for (p,k), i.e. that of the latest put not since removed,
\* renamed away, cleared or expired, and raises KeyNotExist when the map holds
\* none; put returns its value argument; rm of an absent key raises nothing
\* and leaves the backend as it was.
C1_ScalarAgreesWithReference ==
    /\ \A pk \in ScalarNames :
          LET g == get(store, pk[1], pk[2])
          IN  IF pk \in DOMAIN ref
              THEN g.err = NoErr /\ g.ret = ref[pk].v
              ELSE g.err = KeyNotExist(pk[1], pk[2])
    /\ (last.op = "put" /\ last.err = NoErr) => last.ret = last.arg.value
    /\ (last.op = "rm" /\ ~Exists(prev, fqkn(last.pool, last.key)))
          => (last.err = NoErr /\ store = prev)

\* a falsy value is read back from a key of pool p while the pool's other key
\* is gone and pool q still holds one
C1_Witness ==
    /\ last.op = "get" /\ last.err = NoErr /\ last.ret = "None"
    /\ last.pool = PoolP /\ last.key = KeyB
    /\ DOMAIN ref = {<<PoolP, KeyB>>, <<PoolQ, KeyA>>}

\* C7: the three TTL states are told apart: ttl raises KeyNotExist exactly for
\* an absent key, returns None exactly for a key with no expiration (so after
\* a put without ttl, whatever the key had before), and after put with ttl = t
\* > 0 returns an integer in [0,t], which as time passes only falls, never
\* turning into None, until the key is gone.
C7_TtlStatesDistinct ==
    /\ \A pk \in ScalarNames :
          LET k1 == fqkn(pk[1], pk[2])
              r == ttl(store, pk[1], pk[2])
          IN  /\ r.err.kind \in {"none", "KeyNotExist"}
              /\ (r.err.kind = "KeyNotExist") <=> ~Exists(store, k1)
              /\ (r.err = NoErr /\ r.ret = None) <=> (Exists(store, k1) /\ store[k1].ttl = -1)
              /\ (r.err = NoErr /\ r.ret # None) => r.ret[1] >= 0
    /\ (last.op = "put" /\ last.err = NoErr /\ last.arg.ttl = None)
          => ttl(store, last.pool, last.key).ret = None
    /\ (last.op = "put" /\ last.err = NoErr /\ last.arg.ttl # None /\ last.arg.ttl # Some(0))
          => LET r == ttl(store, last.pool, last.key)
             IN  r.err = NoErr /\ r.ret # None /\ r.ret[1] \in 0..last.arg.ttl[1]
    /\ last.op = "tick"
          => \A pk \in ScalarNames :
                (Exists(prev, fqkn(pk[1], pk[2])) /\ Exists(store, fqkn(pk[1], pk[2])))
                   => LET a == ttl(prev, pk[1], pk[2]).ret
                          b == ttl(store, pk[1], pk[2]).ret
                      IN  IF a = None THEN b = None
                          ELSE b # None /\ b[1] \in 0..a[1]

\* ttl reports the last second of a key put with an expiration, while another
\* key has none
C7_Witness ==
    /\ last.op = "ttl" /\ last.err = NoErr /\ last.ret = Some(0)
    /\ \E k \in DOMAIN store : store[k].ttl = -1

---------------------------------------------------------------------------
(* Two pools on one backend: every writing method on the keys of either    *)
(* pool, over values of each shape with and without expiration.            *)

IsoPools == {PoolP, PoolQ}
IsoKeys == {KeyA, KeyB}
\* the keys each pool is written at; rnm moves those of pool p between a and b
IsoNames == {<<PoolP, KeyA>>, <<PoolP, KeyB>>, <<PoolQ, KeyA>>}

NextIso ==
    \/ \E p \in IsoPools : Keys(p)
    \/ \E p \in IsoPools : Clear(p)
    \/ \E k \in IsoKeys, k2 \in IsoKeys : Rnm(PoolP, k, k2, "rename_same_is_ok")
    \/ \E pk \in IsoNames :
          \/ \E t \in {None, Some(1)} : Put(pk[1], pk[2], "x", t, "ex_if_not_none")
          \/ PutHash(pk[1], pk[2], Dict1("f", "x"), None)
          \/ RmHashItem(pk[1], pk[2], "f")
          \/ PutList(pk[1], pk[2], <<"x">>, None)
          \/ ListLPush(pk[1], pk[2], "x", None)
          \/ ListRPush(pk[1], pk[2], "x", None)
          \/ ListLPop(pk[1], pk[2])
          \/ ListRPop(pk[1], pk[2])
          \/ \E t \in 0..MaxTTL : ExpireKey(pk[1], pk[2], t)
          \/ Rm(pk[1], pk[2])

SpecIso == Init /\ [][NextIso]_vars

\* what a caller can learn of (q,k): whether it exists, what it holds and the
\* time it has left
Observed(st, q, k) ==
    IF has(st, q, k).ret THEN <<TRUE, st[fqkn(q, k)]>> ELSE <<FALSE>>

\* C11: pools are isolated: a call of any driver method on pool p leaves the
\* existence, the value and the TTL of every key of every other pool q as they
\* were, and keys(p) yields only keys that pool p holds, never one that is
\* stored only in q.
C11_PoolsIsolated ==
    last.pool \in IsoPools =>
       /\ \A q \in IsoPools \ {last.pool}, k \in IsoKeys :
             Observed(store, q, k) = Observed(prev, q, k)
       /\ last.op = "keys" =>
             \A n \in DOMAIN last.ret : has(prev, last.pool, n).ret

\* clear(p) emptied pool p, which held a key of the name that pool q holds as a
\* list with an expiration
C11_Witness ==
    /\ last.op = "clear" /\ last.pool = PoolP
    /\ Exists(prev, fqkn(PoolP, KeyA)) /\ ~Exists(store, fqkn(PoolP, KeyA))
    /\ Exists(store, fqkn(PoolQ, KeyA))
    /\ store[fqkn(PoolQ, KeyA)].type = "list"
    /\ store[fqkn(PoolQ, KeyA)].ttl = 1

---------------------------------------------------------------------------
(* Reads of the hash store (SpecHash) with explicit fields and defaults.   *)

\* the dict of the requested fields of a backend hash
Requested(h, fs) == [f \in {fs[i] : i \in 1..Len(fs)} |-> loads(HValue(h, f))]

\* C12: get_hash with a non-empty list of field names, on a key holding a
\* hash: if every requested field is present it returns the mapping of those
\* fields to their stored values; if one is absent it raises the
\* hash-field-not-exist error and no other.
C12_GetHashFields ==
    (/\ last.op = "get_hash" /\ last.arg.hash_keys # <<>>
     /\ Exists(prev, fqkn(last.pool, last.key))
     /\ prev[fqkn(last.pool, last.key)].type = "hash") =>
       LET h == prev[fqkn(last.pool, last.key)].val
           fs == last.arg.hash_keys
       IN  IF \A i \in 1..Len(fs) : fs[i] \in HFields(h)
           THEN last.err = NoErr /\ last.ret = Requested(h, fs)
           ELSE last.err.kind = "HashKeyNotExists"

\* C13: get_hash_item(p,k,f,default) raises KeyNotExist when the key is
\* absent; on a key holding a hash it returns default, raising nothing, when
\* field f is absent, and the stored value when f is present, also when that
\* value is falsy and whatever the default.
C13_GetHashItemDefault ==
    /\ \A p \in Pools, k \in {KeyA}, f \in ReadFields, d \in {PyNone, "dflt"} :
          LET k1 == fqkn(p, k)
              r == get_hash_item(store, p, k, f, d)
          IN  /\ ~Exists(store, k1) => r.err = KeyNotExist(p, k)
              /\ (Exists(store, k1) /\ store[k1].type = "hash") =>
                    /\ r.err = NoErr
                    /\ r.ret = IF f \in HFields(store[k1].val)
                               THEN loads(HValue(store[k1].val, f)) ELSE d
    /\ (/\ last.op = "get_hash_item"
        /\ Exists(prev, fqkn(last.pool, last.key))
        /\ prev[fqkn(last.pool, last.key)].type = "hash") =>
          LET h == prev[fqkn(last.pool, last.key)].val
          IN  /\ last.err = NoErr
              /\ last.ret = IF last.arg.item_key \in HFields(h)
                            THEN loads(HValue(h, last.arg.item_key))
                            ELSE last.arg.default

\* a stored falsy value was returned although a default was passed, from a
\* hash that lacks the other field
C13_Witness ==
    /\ last.op = "get_hash_item" /\ last.err = NoErr
    /\ last.arg.item_key = "f" /\ last.arg.default = "dflt" /\ last.ret = "0"
    /\ Exists(store, fqkn(last.pool, last.key))
    /\ store[fqkn(last.pool, last.key)].type = "hash"
    /\ HFields(store[fqkn(last.pool, last.key)].val) = {"f"}

---------------------------------------------------------------------------
(* The ends of a list (SpecList).                                          *)

\* the values that list_l_pop returns when called until it raises
RECURSIVE DrainLeft(_, _, _)
DrainLeft(st, p, k) ==
    LET r == list_l_pop(st, p, k)
    IN  IF Raised(r) THEN <<>> ELSE <<r.ret>> \o DrainLeft(r.st, p, k)

\* C14: the ends of a list behave as a deque.  On a key that is absent or
\* holds a list, list_l_push puts its value at index 0 and list_r_push at the
\* last index (a ttl of 0, which removes the key at once, aside); list_l_pop
\* removes and returns the element at index 0 and list_r_pop the last one,
\* the others keeping their order, so that popping on the left gives the
\* elements in the order pushes on the right put them; a pop on an absent
\* (empty) list raises KeyNotExist and changes nothing.
C14_ListEndsDeque ==
    LET k1 == fqkn(last.pool, last.key)
        L == Loaded(ListAt(prev, k1))
        M == Loaded(ListAt(store, k1))
        wasList == ~Exists(prev, k1) \/ prev[k1].type = "list"
    IN  /\ (last.op = "list_l_push" /\ wasList /\ last.arg.ttl # Some(0)) =>
              last.err = NoErr /\ M = <<last.arg.value>> \o L
        /\ (last.op = "list_r_push" /\ wasList /\ last.arg.ttl # Some(0)) =>
              last.err = NoErr /\ M = Append(L, last.arg.value)
        /\ (last.op = "list_l_pop" /\ wasList) =>
              IF L = <<>> THEN last.err = KeyNotExist(last.pool, last.key) /\ store = prev
              ELSE last.err = NoErr /\ last.ret = Head(L) /\ M = Tail(L)
        /\ (last.op = "list_r_pop" /\ wasList) =>
              IF L = <<>> THEN last.err = KeyNotExist(last.pool, last.key) /\ store = prev
              ELSE last.err = NoErr /\ last.ret = L[Len(L)] /\ M = SubSeq(L, 1, Len(L) - 1)
        /\ \A p \in Pools, k \in {KeyA} :
              (Exists(store, fqkn(p, k)) /\ store[fqkn(p, k)].type = "list") =>
                 DrainLeft(store, p, k) = Loaded(store[fqkn(p, k)].val)

\* x was popped on the left of the list [x, y], built by pushing x then y on
\* the right of an absent key
C14_Witness ==
    /\ last.op = "list_l_pop" /\ last.err = NoErr /\ last.ret = "x"
    /\ Exists(prev, fqkn(last.pool, last.key))
    /\ Loaded(ListAt(prev, fqkn(last.pool, last.key))) = <<"x", "y">>
    /\ Loaded(ListAt(store, fqkn(last.pool, last.key))) = <<"y">>

---------------------------------------------------------------------------
(* Expiration given to the writes of hashes and lists.                     *)

\* C15: a ttl argument given to put_hash, put_hash_item, put_list,
\* list_l_push or list_r_push, 0 included, is applied to the key: right after
\* the call the key has at most ttl seconds left or is gone, and ttl(p,k) is
\* never None.
C15_TtlApplied ==
    (/\ last.op \in {"put_hash", "put_hash_item", "put_list", "list_l_push", "list_r_push"}
     /\ last.arg.ttl # None
     /\ last.err = NoErr) =>
       LET r == ttl(store, last.pool, last.key)
       IN  \/ r.err.kind = "KeyNotExist"
           \/ r.err = NoErr /\ r.ret # None /\ r.ret[1] <= last.arg.ttl[1]

---------------------------------------------------------------------------
(* The field that marks an empty hash.                                     *)

\* get_hash never returns the marking field
MarkerStripped ==
    (last.op = "get_hash" /\ last.err = NoErr) => Marker \notin DOMAIN last.ret

\* C16: the field that marks an empty hash is never seen by a caller:
\* get_hash never returns it as a field, get_hash_item treats its name as an
\* absent field and returns default, and put_hash returns the mapping it was
\* given, the empty one included.
C16_MarkerHidden ==
    /\ MarkerStripped
    /\ (last.op = "get_hash_item" /\ last.err = NoErr /\ last.arg.item_key = Marker)
          => last.ret = last.arg.default
    /\ (last.op = "put_hash" /\ last.err = NoErr) => last.ret = last.arg.value

---------------------------------------------------------------------------
(* What the driver's errors name.                                          *)

\* C17: every KeyNotExist and every hash-field-not-exist error names the pool
\* and the logical key as the caller passed them, never the fully qualified
\* key of the backend.
C17_ErrorsNameLogicalKey ==
    last.err.kind \in {"KeyNotExist", "HashKeyNotExists"} =>
       last.err.pool = last.pool /\ last.err.key = last.key

---------------------------------------------------------------------------
(* Reads racing with writes.  The driver holds no lock and the backend     *)
(* runs one command at a time, so a read method that sends several         *)
(* commands can have the calls of another client fall between them.  A     *)
(* read of the key (p, a) is taken one command at a time; the other        *)
(* client's calls are whole driver calls.  While the read is in progress   *)
(* call.seenHash and call.seenList collect what the key held at any moment *)
(* of it, call.during the methods the other client called.                 *)

\* the most calls of the other client that fall inside one read
MaxRace == 2

InProgress == call.pc \notin {"idle", "done"}
CallKey == fqkn(call.pool, call.key)

HashSeen(st, k1) == IF Exists(st, k1) /\ st[k1].type = "hash" THEN {st[k1].val} ELSE {}
ListSeen(st, k1) == IF Exists(st, k1) /\ st[k1].type = "list" THEN {st[k1].val} ELSE {}

\* the read's record after a call of the other client left the keyspace st
Track(c, st, op) ==
    IF c.pc \in {"idle", "done"} THEN c
    ELSE [c EXCEPT !.seenHash = @ \cup HashSeen(st, fqkn(c.pool, c.key)),
                   !.seenList = @ \cup ListSeen(st, fqkn(c.pool, c.key)),
                   !.during = @ \cup {op},
                   !.n = @ + 1]

\* a whole call of the other client
Racing(op, pool, key, arg, res) ==
    /\ InProgress => call.n < MaxRace
    /\ Call(op, pool, key, arg, res)
    /\ call' = Track(call, res.st, op)
    /\ UNCHANGED ref

RacePutHashItem(p, k, f, v) ==
    Racing("put_hash_item", p, k, [item_key |-> f, value |-> v, ttl |-> None],
           put_hash_item(store, p, k, f, v, None))
RaceRmHashItem(p, k, f) ==
    Racing("rm_hash_item", p, k, [item_key |-> f], rm_hash_item(store, p, k, f))
RaceListRPush(p, k, v) ==
    /\ Len(ListAt(store, fqkn(p, k))) < MaxLen
    /\ Racing("list_r_push", p, k, [value |-> v, ttl |-> None],
              list_r_push(store, p, k, v, None))
RaceRm(p, k) == Racing("rm", p, k, NoArg, rm(store, p, k))
RaceClear(p) == Racing("clear", p, <<>>, NoArg, clear(store, p))

\* a read method is entered
BeginRead(op, p, k, arg) ==
    /\ ~InProgress
    /\ call' = [Idle EXCEPT !.pc = "has", !.op = op, !.pool = p, !.key = k, !.arg = arg,
                            !.seenHash = HashSeen(store, fqkn(p, k)),
                            !.seenList = ListSeen(store, fqkn(p, k))]
    /\ UNCHANGED <<store, prev, last, ref>>

\* the read method returns or raises
Finish(res) ==
    /\ Call(call.op, call.pool, call.key, call.arg, res)
    /\ call' = [call EXCEPT !.pc = "done", !.ret = res.ret, !.err = res.err]
    /\ UNCHANGED ref

\* the read moves on to its next command
Goto(pc) == call' = [call EXCEPT !.pc = pc] /\ UNCHANGED <<store, prev, last, ref>>

\* "if not self.has(pool, key): raise KeyNotExist" of all four reads
StepHas ==
    /\ call.pc = "has"
    /\ IF ~has(store, call.pool, call.key).ret
       THEN Finish(Raise(store, KeyNotExist(call.pool, call.key)))
       ELSE Goto(CASE call.op = "get_hash" -> "hvals"
                   [] call.op = "get_hash_item" -> "hget"
                   [] call.op = "list_len" -> "llen"
                   [] call.op = "get_list" ->
                         IF call.arg.end = None THEN "len_has" ELSE "lrange")

\* get_hash: values = self._client.hvals(key)
StepHVals ==
    /\ call.pc = "hvals"
    /\ LET r == RHVals(store, CallKey)
       IN  IF r.err # "" THEN Finish(Fail(r))
           ELSE /\ call' = [call EXCEPT !.pc = "hkeys", !.values = r.val]
                /\ UNCHANGED <<store, prev, last, ref>>

\* get_hash: hash_keys = self._client.hkeys(key), then the loop
StepHKeys ==
    /\ call.pc = "hkeys"
    /\ LET r == RHKeys(store, CallKey)
       IN  IF r.err # "" THEN Finish(Fail(r))
           ELSE Finish(GetHashLoop(store, call.pool, CallKey, call.values, r.val,
                                   "bytes", 1, EmptyDict))

\* get_hash_item: self._client.hget and the return
StepHGet ==
    /\ call.pc = "hget"
    /\ LET r == RHGet(store, CallKey, call.arg.item_key)
       IN  IF r.err # "" THEN Finish(Fail(r))
           ELSE Finish(Ok(store, IF BytesTruthy(r.val) THEN loads(r.val)
                                 ELSE call.arg.default))

\* get_list with end omitted: the existence check of the list_len it calls
StepLenHas ==
    /\ call.pc = "len_has"
    /\ IF ~has(store, call.pool, call.key).ret
       THEN Finish(Raise(store, KeyNotExist(call.pool, call.key)))
       ELSE Goto("len_llen")

\* list_len: self._client.llen, returned or kept as the end of get_list
StepLLen ==
    /\ call.pc \in {"llen", "len_llen"}
    /\ LET r == RLLen(store, CallKey)
       IN  IF r.err # "" THEN Finish(Fail(r))
           ELSE IF call.pc = "llen" THEN Finish(Ok(store, r.val))
           ELSE /\ call' = [call EXCEPT !.pc = "lrange", !.values = <<r.val>>]
                /\ UNCHANGED <<store, prev, last, ref>>

\* get_list: self._client.lrange and the return
StepLRange ==
    /\ call.pc = "lrange"
    /\ LET end1 == IF call.arg.end = None THEN call.values[1] ELSE call.arg.end[1] - 1
           r == RLRange(store, CallKey, call.arg.start, end1)
       IN  IF r.err # "" THEN Finish(Fail(r))
           ELSE Finish(Ok(store, [i \in 1..Len(r.val) |-> loads(r.val[i])]))

RaceValues == {"x", "y"}
ReadCalls ==
    {<<"get_hash", [hash_keys |-> <<>>, enc |-> "bytes"]>>,
     <<"get_hash_item", [item_key |-> "f", default |-> "dflt"]>>,
     <<"list_len", NoArg>>,
     <<"get_list", [start |-> 0, end |-> None]>>,
     <<"get_list", [start |-> 0, end |-> Some(1)]>>}

NextRace ==
    \E p \in Pools, k \in {KeyA} :
       \/ \E rc \in ReadCalls : BeginRead(rc[1], p, k, rc[2])
       \/ StepHas
       \/ StepHVals
       \/ StepHKeys
       \/ StepHGet
       \/ StepLenHas
       \/ StepLLen
       \/ StepLRange
       \/ \E f \in HashFields, v \in RaceValues : RacePutHashItem(p, k, f, v)
       \/ \E f \in HashFields : RaceRmHashItem(p, k, f)
       \/ RaceListRPush(p, k, "x")
       \/ RaceRm(p, k)
       \/ RaceClear(p)

SpecRace == Init /\ [][NextRace]_vars

\* the method of a finished read, called as a whole
Whole(st, c) ==
    CASE c.op = "get_hash" -> get_hash(st, c.pool, c.key, <<>>, "bytes")
      [] c.op = "get_hash_item" ->
            get_hash_item(st, c.pool, c.key, c.arg.item_key, c.arg.default)
      [] c.op = "list_len" -> list_len(st, c.pool, c.key)
      [] c.op = "get_list" -> get_list(st, c.pool, c.key, c.arg.start, c.arg.end)

\* a read that no call fell into returns or raises what the method called as
\* a whole does
StepwiseAgrees ==
    (call.pc = "done" /\ call.during = {} /\ last.op = call.op) =>
       /\ Whole(prev, call).err = call.err
       /\ call.err = NoErr => Whole(prev, call).ret = call.ret

\* C18: a get_hash(p,k) with no fields given that put_hash_item and
\* rm_hash_item calls of another client fall into either raises or returns a
\* mapping whose every field f has a value that was stored under f at some
\* moment of the call; no field gets the value of another.
C18_GetHashPairsFields ==
    (/\ call.pc = "done" /\ call.op = "get_hash"
     /\ call.during \subseteq {"put_hash_item", "rm_hash_item"}
     /\ call.err = NoErr) =>
       \A f \in DOMAIN call.ret :
          \E h \in call.seenHash : f \in HFields(h) /\ loads(HValue(h, f)) = call.ret[f]

\* the dict that get_hash gives of a backend hash
DictOf(h) == [f \in HFields(h) \ {Marker} |-> loads(HValue(h, f))]

\* what the finished read returned is what it gives of something the key
\* held at some moment of the call
ReturnedSeen ==
    CASE call.op = "get_hash" -> \E h \in call.seenHash : call.ret = DictOf(h)
      [] call.op = "get_hash_item" ->
            \E h \in call.seenHash :
               call.ret = IF call.arg.item_key \in HFields(h)
                          THEN loads(HValue(h, call.arg.item_key))
                          ELSE call.arg.default
      [] call.op = "list_len" -> \E l \in call.seenList : call.ret = Len(l)
      [] call.op = "get_list" ->
            \E l \in call.seenList :
               call.ret = PySlice(Loaded(l), call.arg.start,
                                  IF call.arg.end = None THEN Len(l) ELSE call.arg.end[1])

\* C19: a get_hash, get_hash_item, list_len or get_list on a key holding a
\* hash or a list that rm(p,k) or clear(p) calls of another client fall into
\* either raises KeyNotExist or returns what the key held at some moment of
\* the call; it never returns the empty mapping, the empty list, 0 or the
\* default for the key that was removed.
C19_ReaderSeesDataOrRaises ==
    (/\ call.pc = "done"
     /\ call.during \subseteq {"rm", "clear"}
     /\ IF call.op \in {"get_hash", "get_hash_item"}
        THEN call.seenHash # {} ELSE call.seenList # {}) =>
       \/ call.err.kind = "KeyNotExist"
       \/ call.err = NoErr /\ ReturnedSeen

---------------------------------------------------------------------------
(* The end of a container (Spec).                                          *)

\* the reads of a container all raise KeyNotExist
ContainerGone(st, p, k) ==
    /\ ~has(st, p, k).ret
    /\ get_hash(st, p, k, <<>>, "bytes").err = KeyNotExist(p, k)
    /\ list_len(st, p, k).err = KeyNotExist(p, k)
    /\ get_list(st, p, k, 0, None).err = KeyNotExist(p, k)

\* C20: a container ceases to exist with its last element.  After
\* rm_hash_item removes the only field the backend holds of a hash (one with
\* no marking field), and after a pop removes the only element of a list,
\* has(p,k) is false and get_hash, list_len and get_list raise KeyNotExist.  A
\* hash that holds the marking field, as put_hash(p,k,{}) creates it, still
\* exists after rm_hash_item, and get_hash returns the empty mapping once the
\* fields added with put_hash_item are all removed.  rm_hash_item of an absent
\* field, or on an absent key, raises nothing and changes nothing.
C20_LastElementEndsContainer ==
    LET k1 == fqkn(last.pool, last.key)
        wasHash == Exists(prev, k1) /\ prev[k1].type = "hash"
        wasList == Exists(prev, k1) /\ prev[k1].type = "list"
    IN  /\ (/\ last.op = "rm_hash_item" /\ wasHash
            /\ HFields(prev[k1].val) = {last.arg.item_key}
            /\ last.arg.item_key # Marker) =>
              last.err = NoErr /\ ContainerGone(store, last.pool, last.key)
        /\ (/\ last.op \in {"list_l_pop", "list_r_pop"} /\ wasList
            /\ Len(prev[k1].val) = 1) =>
              last.err = NoErr /\ ContainerGone(store, last.pool, last.key)
        /\ (/\ last.op = "rm_hash_item" /\ wasHash
            /\ Marker \in HFields(prev[k1].val)
            /\ last.arg.item_key # Marker) =>
              /\ last.err = NoErr
              /\ has(store, last.pool, last.key).ret
              /\ HFields(prev[k1].val) \ {last.arg.item_key} = {Marker} =>
                    LET g == get_hash(store, last.pool, last.key, <<>>, "bytes")
                    IN  g.err = NoErr /\ g.ret = EmptyDict
        /\ (/\ last.op = "rm_hash_item"
            /\ \/ ~Exists(prev, k1)
               \/ wasHash /\ last.arg.item_key \notin HFields(prev[k1].val)) =>
              last.err = NoErr /\ store = prev

\* rm_hash_item removed the only field of a hash, and with it the key, while
\* the pool's other key still holds a hash of the marking field alone
C20_Witness ==
    /\ last.op = "rm_hash_item" /\ last.err = NoErr
    /\ Exists(prev, fqkn(last.pool, last.key))
    /\ prev[fqkn(last.pool, last.key)].type = "hash"
    /\ HFields(prev[fqkn(last.pool, last.key)].val) = {"f"}
    /\ ~Exists(store, fqkn(last.pool, last.key))
    /\ \E k \in DOMAIN store :
          store[k].type = "hash" /\ HFields(store[k].val) = {Marker}

===========================================================================
